---- MODULE Spec2Model ----
(***************************************************************************)
(* Model of package times (github.com/mantyr/times): the Time value type   *)
(* of src/time.go and its Europe/Moscow variant of src/time_moscow.go.     *)
(*                                                                         *)
(* Texts are sequences of one-character strings, so parsing and formatting *)
(* are computed character by character.  An instant is a pair (days, secs) *)
(* counted from 0001-01-01T00:00:00 UTC (the zero value of time.Time) plus *)
(* nanoseconds; the pair keeps every number inside TLC's 32-bit integers.  *)
(***************************************************************************)
EXTENDS Integers, Sequences, FiniteSets, TLC

(***************************************************************************)
(* Characters and numbers                                                  *)
(***************************************************************************)
DigitChars == <<"0", "1", "2", "3", "4", "5", "6", "7", "8", "9">>

isDigit(s, i) == i <= Len(s) /\ \E k \in 1..10 : DigitChars[k] = s[i]

digitVal(c) == (CHOOSE k \in 1..10 : DigitChars[k] = c) - 1

Drop(s, n) == SubSeq(s, n + 1, Len(s))

\* appendInt(b, x, width) of package time for x >= 0: zero-padded decimal
RECURSIVE appendInt(_, _)
appendInt(x, width) ==
    IF width <= 1 /\ x < 10 THEN <<DigitChars[x + 1]>>
    ELSE appendInt(x \div 10, width - 1) \o <<DigitChars[(x % 10) + 1]>>

\* Go's integer division truncates toward zero
TruncDiv(a, b) == IF a >= 0 THEN a \div b ELSE -((-a) \div b)

TruncMod(a, b) == a - b * TruncDiv(a, b)

secondsPerDay == 24 * 3600

nanosPerSecond == 1000 * 1000 * 1000

(***************************************************************************)
(* Calendar (proleptic Gregorian), as package time computes it             *)
(***************************************************************************)
isLeap(year) == year % 4 = 0 /\ (year % 100 # 0 \/ year % 400 = 0)

daysBefore == <<0, 31, 59, 90, 120, 151, 181, 212, 243, 273, 304, 334, 365>>

daysIn(month, year) ==
    IF month = 2 /\ isLeap(year) THEN 29
    ELSE daysBefore[month + 1] - daysBefore[month]

\* days from 0001-01-01 to January 1 of year
daysSinceEpoch(year) ==
    LET y == year - 1
    IN  365 * y + y \div 4 - y \div 100 + y \div 400

\* the day number of day `day` of month 1..12 of a year
dayNumber(year, month, day) ==
    daysSinceEpoch(year) + daysBefore[month]
        + (IF isLeap(year) /\ month >= 3 THEN 1 ELSE 0) + (day - 1)

\* the day number of year-month-day; month and day may be out of range and
\* are normalised the way time.Date does (month 13 is January of year+1,
\* day 0 is the last day of the month before)
civilDays(year, month, day) ==
    dayNumber(year + (month - 1) \div 12, ((month - 1) % 12) + 1, day)

\* n -= n >> 2: a count of 0..4 cycles cut to 0..3
cut(n) == n - n \div 4

\* the days of a year before the end of its k-th month
monthEnd(leap, k) == IF leap /\ k >= 2 THEN daysBefore[k + 1] + 1 ELSE daysBefore[k + 1]

monthOf(leap, yday) ==
    CHOOSE k \in 1..12 : monthEnd(leap, k - 1) <= yday /\ yday < monthEnd(leap, k)

ymd(year, month, yday) ==
    [year |-> year, month |-> month, day |-> yday - monthEnd(isLeap(year), month - 1) + 1]

yearDate(year, yday) == ymd(year, monthOf(isLeap(year), yday), yday)

\* absDate: the year, month and day of a day number, by cycles of 400,
\* 100, 4 and 1 years
absDate1(n400, n100, n4, d) ==
    yearDate(400 * n400 + 100 * n100 + 4 * n4 + cut(d \div 365) + 1,
             d - 365 * cut(d \div 365))

absDate4(n400, n100, d) == absDate1(n400, n100, d \div 1461, d % 1461)

absDate100(n400, d) ==
    absDate4(n400, cut(d \div 36524), d - 36524 * cut(d \div 36524))

absDate(days) == absDate100(days \div 146097, days % 146097)

\* an instant as (days, secs) with 0 <= secs < 86400
norm(days, secs) ==
    [days |-> days + secs \div secondsPerDay, secs |-> secs % secondsPerDay]

before(a, b) == a.days < b.days \/ (a.days = b.days /\ a.secs < b.secs)

utcInstant(year, month, day, hour, min, sec) ==
    norm(civilDays(year, month, day), hour * 3600 + min * 60 + sec)

(***************************************************************************)
(* Locations (time.Location).  A location is a record; nil is the absent   *)
(* location.  The zone data of Europe/Moscow is the part of the tz         *)
(* database the inputs below visit: local mean time before 1880, the       *)
(* summer of 1981 (whose transitions fall on the first day of a month),    *)
(* UTC+4 from 2011-03-27 to 2014-10-26, and UTC+3 otherwise.               *)
(***************************************************************************)
nil == [name |-> "nil", offset |-> 0]

UTC == [name |-> "UTC", offset |-> 0]

MoscowLocation == [name |-> "Europe/Moscow", offset |-> 0]

FixedZone(name, offset) == [name |-> name, offset |-> offset]

alpha == [days |-> -100000000, secs |-> 0]

omega == [days |-> 100000000, secs |-> 0]

LMT == <<"L", "M", "T">>

MSK == <<"M", "S", "K">>

MSD == <<"M", "S", "D">>

moscowZones ==
    << [from |-> alpha,                              offset |-> 9017,     abbr |-> LMT],
       [from |-> utcInstant(1879, 12, 31, 21, 29, 43), offset |-> 3 * 3600, abbr |-> MSK],
       [from |-> utcInstant(1981, 3, 31, 21, 0, 0),    offset |-> 4 * 3600, abbr |-> MSD],
       [from |-> utcInstant(1981, 9, 30, 20, 0, 0),    offset |-> 3 * 3600, abbr |-> MSK],
       [from |-> utcInstant(2011, 3, 26, 23, 0, 0),    offset |-> 4 * 3600, abbr |-> MSK],
       [from |-> utcInstant(2014, 10, 25, 22, 0, 0),   offset |-> 3 * 3600, abbr |-> MSK] >>

\* the index of the zone of zs in force at a UTC instant
zoneIndex(zs, inst) ==
    CHOOSE k \in 1..Len(zs) :
        /\ ~before(inst, zs[k].from)
        /\ (k = Len(zs) \/ before(inst, zs[k + 1].from))

zonePeriod(zs, i) ==
    [abbr   |-> zs[i].abbr,
     offset |-> zs[i].offset,
     start  |-> zs[i].from,
     end    |-> IF i = Len(zs) THEN omega ELSE zs[i + 1].from]

\* Location.lookup: the zone in force at a UTC instant, and when it starts and ends
lookup(loc, inst) ==
    IF loc = MoscowLocation
    THEN zonePeriod(moscowZones, zoneIndex(moscowZones, inst))
    ELSE [abbr   |-> IF loc = UTC THEN <<"U", "T", "C">> ELSE <<>>,
          offset |-> loc.offset,
          start  |-> alpha,
          end    |-> omega]

zoneOffsets(loc) ==
    IF loc = MoscowLocation
    THEN {moscowZones[k].offset : k \in 1..Len(moscowZones)}
    ELSE {loc.offset}

(***************************************************************************)
(* time.Time: the instant (days, secs, nsec), the monotonic clock reading  *)
(* (0 when the value carries none) and the location.                       *)
(***************************************************************************)
mkTime(inst, nsec, mono, loc) ==
    [days |-> inst.days, secs |-> inst.secs, nsec |-> nsec, mono |-> mono, loc |-> loc]

instant(t) == [days |-> t.days, secs |-> t.secs]

zeroTime == mkTime(norm(0, 0), 0, 0, UTC)

\* Time.In: the same instant in another location; setLoc strips the
\* monotonic reading
In(t, loc) == [t EXCEPT !.loc = loc, !.mono = 0]

offsetOf(t) == lookup(t.loc, instant(t)).offset

\* the date d and the second of the day as a wall clock
clockOf(d, secs) ==
    [year |-> d.year, month |-> d.month, day |-> d.day,
     hour |-> secs \div 3600, min |-> (secs % 3600) \div 60, sec |-> secs % 60]

wallAt(w) == clockOf(absDate(w.days), w.secs)

\* Time.abs and Time.Date/Clock: the wall clock the value shows in its location
wallClock(t) == wallAt(norm(t.days, t.secs + offsetOf(t)))

\* the offset time.Date settles on: that of zone z, found at the wall clock
\* read as UTC, unless the instant utc it gives lies outside z's period
dateOffset(loc, z, utc) ==
    IF z.offset # 0 /\ (before(utc, z.start) \/ ~before(utc, z.end))
    THEN lookup(loc, utc).offset
    ELSE z.offset

dateAt(unix, offset, nsec, loc) ==
    mkTime(norm(unix.days, unix.secs - offset), nsec, 0, loc)

dateIn(unix, z, nsec, loc) ==
    dateAt(unix, dateOffset(loc, z, norm(unix.days, unix.secs - z.offset)), nsec, loc)

dateOf(unix, nsec, loc) == dateIn(unix, lookup(loc, unix), nsec, loc)

\* time.Date: the value whose wall clock in loc is the given one.  The
\* library looks the zone up at the wall clock read as UTC and, when the
\* instant this gives lies outside that zone's period, looks it up again
\* at that instant; a wall clock skipped by a transition so comes out
\* shifted by the size of the gap.
Date(year, month, day, hour, min, sec, nsec, loc) ==
    dateOf(norm(civilDays(year, month, day), hour * 3600 + min * 60 + sec), nsec, loc)

addDate(w, years, months, days, nsec, loc) ==
    Date(w.year + years, w.month + months, w.day + days, w.hour, w.min, w.sec, nsec, loc)

\* Time.AddDate
AddDate(t, years, months, days) ==
    addDate(wallClock(t), years, months, days, t.nsec, t.loc)

\* a difference of s seconds and ns nanoseconds, both of one sign
signed(s, ns) ==
    IF s > 0 /\ ns < 0 THEN [s |-> s - 1, ns |-> ns + nanosPerSecond]
    ELSE IF s < 0 /\ ns > 0 THEN [s |-> s + 1, ns |-> ns - nanosPerSecond]
    ELSE [s |-> s, ns |-> ns]

\* Time.Sub in whole seconds and nanoseconds of the same sign
Sub(t, u) ==
    signed((t.days - u.days) * secondsPerDay + (t.secs - u.secs), t.nsec - u.nsec)

\* the carry of a sum of nanoseconds into the seconds
carry(ns) == IF ns >= nanosPerSecond THEN 1 ELSE IF ns < 0 THEN -1 ELSE 0

moved(t, inst, nsec, d) ==
    [t EXCEPT !.days = inst.days, !.secs = inst.secs, !.nsec = nsec,
              !.mono = IF @ = 0 THEN 0 ELSE @ + d.s]

\* Time.Add of a duration d = [s, ns] (both of the sign of the duration)
timeAdd(t, d) ==
    moved(t, norm(t.days, t.secs + d.s + carry(t.nsec + d.ns)),
          t.nsec + d.ns - carry(t.nsec + d.ns) * nanosPerSecond, d)

(***************************************************************************)
(* Layouts and Time.Format                                                 *)
(***************************************************************************)
layoutNaive == "2006-01-02T15:04:05"

layoutZoned == "2006-01-02T15:04:05Z07:00"

layoutDefault == "2006-01-02 15:04:05 MST"

formatClock(w, sep) ==
    appendInt(w.year, 4) \o <<"-">> \o appendInt(w.month, 2) \o <<"-">>
        \o appendInt(w.day, 2) \o <<sep>> \o appendInt(w.hour, 2) \o <<":">>
        \o appendInt(w.min, 2) \o <<":">> \o appendInt(w.sec, 2)

\* sign, hours, sep, minutes of an offset of zone minutes
formatOffset(zone, sep) ==
    IF zone < 0
    THEN <<"-">> \o appendInt((-zone) \div 60, 2) \o sep \o appendInt((-zone) % 60, 2)
    ELSE <<"+">> \o appendInt(zone \div 60, 2) \o sep \o appendInt(zone % 60, 2)

\* "Z07:00": Z for offset 0, otherwise sign, hours, colon, minutes
formatISO8601ColonTZ(offset) ==
    IF offset = 0 THEN <<"Z">> ELSE formatOffset(TruncDiv(offset, 60), <<":">>)

\* "MST": the abbreviation, or -0700 style for a zone without a name
formatTZ(abbr, offset) ==
    IF abbr # <<>> THEN abbr ELSE formatOffset(TruncDiv(offset, 60), <<>>)

formatAs(w, z, layout) ==
    CASE layout = layoutNaive   -> formatClock(w, "T")
      [] layout = layoutZoned   -> formatClock(w, "T") \o formatISO8601ColonTZ(z.offset)
      [] layout = layoutDefault -> formatClock(w, " ") \o <<" ">> \o formatTZ(z.abbr, z.offset)

timeFormat(t, layout) == formatAs(wallClock(t), lookup(t.loc, instant(t)), layout)

(***************************************************************************)
(* Errors.  text is what Error() returns, as far as the code reads it:     *)
(* of a ParseError, the quoted input followed by the message.              *)
(***************************************************************************)
nilError == [kind |-> "nil", text |-> <<>>]

errEmptyLocation == [kind |-> "InvalidZone", text |-> <<"empty time location">>]

errUnsupportedType(type) ==
    [kind |-> "UnsupportedType",
     text |-> <<"expected value type time.Time or string but actual ", type>>]

errSyntax == [kind |-> "SyntaxError", text |-> <<"syntax error">>]

parseError(value, message) == [kind |-> "ParseError", text |-> value \o message]

extraText == <<"e", "x", "t", "r", "a", " ", "t", "e", "x", "t">>

errBad == <<"cannot parse">>

errExtra(rest) == <<":", " ">> \o extraText \o <<":", " ">> \o rest

errRange(what) == <<": ", what, " out of range">>

\* strings.Contains
Contains(s, substr) ==
    \E i \in 0..(Len(s) - Len(substr)) : SubSeq(s, i + 1, i + Len(substr)) = substr

(***************************************************************************)
(* time.Parse / time.ParseInLocation for the two layouts the package uses. *)
(* The parser state p carries the first failure (bad), the unread input    *)
(* (rest) and the fields read so far.                                      *)
(***************************************************************************)
\* getnum: a one- or two-digit number; exactly two digits when fixed
getnum(s, fixed) ==
    IF ~isDigit(s, 1) THEN [bad |-> TRUE, n |-> 0, rest |-> s]
    ELSE IF ~isDigit(s, 2)
         THEN IF fixed THEN [bad |-> TRUE, n |-> 0, rest |-> s]
              ELSE [bad |-> FALSE, n |-> digitVal(s[1]), rest |-> Drop(s, 1)]
    ELSE [bad |-> FALSE, n |-> 10 * digitVal(s[1]) + digitVal(s[2]), rest |-> Drop(s, 2)]

RECURSIVE atoi(_)
atoi(s) == IF s = <<>> THEN 0 ELSE 10 * atoi(SubSeq(s, 1, Len(s) - 1)) + digitVal(s[Len(s)])

\* the number of leading characters of s, from position n + 1 on, that are digits
RECURSIVE digitsFrom(_, _)
digitsFrom(s, n) == IF isDigit(s, n + 1) THEN digitsFrom(s, n + 1) ELSE n

RECURSIVE pow10(_)
pow10(k) == IF k <= 0 THEN 1 ELSE 10 * pow10(k - 1)

\* parseNanoseconds: value[0] is the separator, nbytes counts it and the
\* digits; digits after the ninth are dropped
parseNanoseconds(value, nbytes) ==
    LET n == IF nbytes > 10 THEN 10 ELSE nbytes
    IN  atoi(SubSeq(value, 2, n)) * pow10(10 - n)

parseStart(value) ==
    [bad |-> <<>>, rest |-> value, year |-> 0, month |-> 0, day |-> 0,
     hour |-> 0, min |-> 0, sec |-> 0, nsec |-> 0, z |-> "", zoneOffset |-> -1]

\* skip: the literal text between two layout elements
skip(p, c) ==
    IF p.bad # <<>> THEN p
    ELSE IF Len(p.rest) >= 1 /\ p.rest[1] = c THEN [p EXCEPT !.rest = Drop(@, 1)]
    ELSE [p EXCEPT !.bad = errBad]

\* stdLongYear "2006"
parseYear(p) ==
    IF p.bad # <<>> THEN p
    ELSE IF Len(p.rest) < 4 \/ \E i \in 1..4 : ~isDigit(p.rest, i)
         THEN [p EXCEPT !.bad = errBad]
    ELSE [p EXCEPT !.year = atoi(SubSeq(p.rest, 1, 4)), !.rest = Drop(@, 4)]

\* the number g that getnum read, stored in a field if it lies in lo..hi
putNum(p, g, field, lo, hi) ==
    IF g.bad THEN [p EXCEPT !.bad = errBad]
    ELSE IF g.n < lo \/ hi < g.n THEN [p EXCEPT !.bad = errRange(field)]
    ELSE [p EXCEPT ![field] = g.n, !.rest = g.rest]

\* stdZeroMonth "01", stdZeroDay "02", stdHour "15", stdZeroMinute "04",
\* stdZeroSecond "05": lo..hi is the range the element is checked against
\* while parsing (the day is validated after the loop)
parseNum(p, field, fixed, lo, hi) ==
    IF p.bad # <<>> THEN p ELSE putNum(p, getnum(p.rest, fixed), field, lo, hi)

putFraction(p, n) ==
    [p EXCEPT !.nsec = parseNanoseconds(p.rest, n), !.rest = Drop(@, n)]

\* a fractional second in the input where the layout has none
parseFraction(p) ==
    IF p.bad # <<>> THEN p
    ELSE IF Len(p.rest) >= 2 /\ p.rest[1] \in {".", ","} /\ isDigit(p.rest, 2)
         THEN putFraction(p, digitsFrom(p.rest, 1))
    ELSE p

\* the offset of sign, hours hr and minutes mm, stored in the parser state
putZone(p, sign, hr, mm) ==
    IF hr.bad \/ mm.bad THEN [p EXCEPT !.bad = errBad]
    ELSE IF hr.n > 24 THEN [p EXCEPT !.bad = errRange("time zone offset hour")]
    ELSE IF mm.n > 60 THEN [p EXCEPT !.bad = errRange("time zone offset minute")]
    ELSE IF sign = "+"
         THEN [p EXCEPT !.zoneOffset = (hr.n * 60 + mm.n) * 60, !.rest = Drop(@, 6)]
    ELSE IF sign = "-"
         THEN [p EXCEPT !.zoneOffset = -((hr.n * 60 + mm.n) * 60), !.rest = Drop(@, 6)]
    ELSE [p EXCEPT !.bad = errBad]

\* parseZone with the sign of the offset read the wrong way round
parseZone_signFlipped(p) ==
    IF p.bad # <<>> THEN p
    ELSE IF Len(p.rest) >= 1 /\ p.rest[1] = "Z"
         THEN [p EXCEPT !.z = "UTC", !.rest = Drop(@, 1)]
    ELSE IF Len(p.rest) < 6 \/ p.rest[4] # ":" THEN [p EXCEPT !.bad = errBad]
    ELSE putZone(p, IF p.rest[1] = "+" THEN "-" ELSE IF p.rest[1] = "-" THEN "+" ELSE "",
                 getnum(SubSeq(p.rest, 2, 3), TRUE), getnum(SubSeq(p.rest, 5, 6), TRUE))

\* stdISO8601ColonTZ "Z07:00"
parseZone(p) ==
    IF p.bad # <<>> THEN p
    ELSE IF Len(p.rest) >= 1 /\ p.rest[1] = "Z"
         THEN [p EXCEPT !.z = "UTC", !.rest = Drop(@, 1)]
    ELSE IF Len(p.rest) < 6 \/ p.rest[4] # ":" THEN [p EXCEPT !.bad = errBad]
    ELSE putZone(p, p.rest[1],
                 getnum(SubSeq(p.rest, 2, 3), TRUE), getnum(SubSeq(p.rest, 5, 6), TRUE))

\* the end of the layout: nothing may be left of the input
parseEnd(p) ==
    IF p.bad # <<>> THEN p
    ELSE IF p.rest # <<>> THEN [p EXCEPT !.bad = errExtra(p.rest)]
    ELSE IF p.day < 1 \/ p.day > daysIn(p.month, p.year)
         THEN [p EXCEPT !.bad = <<": day out of range">>]
    ELSE p

parseClock(value) ==
    parseFraction(
        parseNum(skip(
        parseNum(skip(
        parseNum(skip(
        parseNum(skip(
        parseNum(skip(
        parseYear(parseStart(value)),
            "-"), "month", TRUE, 1, 12),
            "-"), "day", TRUE, 0, 99),
            "T"), "hour", FALSE, 0, 23),
            ":"), "min", TRUE, 0, 59),
            ":"), "sec", TRUE, 0, 59))

\* the value of the fields read, as Date gives it in location loc
parsedDate(p, loc) == Date(p.year, p.month, p.day, p.hour, p.min, p.sec, p.nsec, loc)

\* the end of time.parse: the error, or the value read.  An offset in the
\* input gives a value in a fixed zone of that offset (the process's Local
\* zone is taken not to have it).
parsed(p, value, defaultLocation) ==
    IF p.bad # <<>> THEN [err |-> parseError(value, p.bad), time |-> zeroTime]
    ELSE IF p.z = "UTC" THEN [err |-> nilError, time |-> parsedDate(p, UTC)]
    ELSE IF p.zoneOffset # -1
         THEN [err |-> nilError,
               time |-> In(timeAdd(parsedDate(p, UTC), [s |-> -p.zoneOffset, ns |-> 0]),
                           FixedZone("", p.zoneOffset))]
    ELSE [err |-> nilError, time |-> parsedDate(p, defaultLocation)]

\* time.parse(layout, value, defaultLocation, local)
parse(layout, value, defaultLocation) ==
    IF layout = layoutZoned
    THEN parsed(parseEnd(parseZone(parseClock(value))), value, defaultLocation)
    ELSE parsed(parseEnd(parseClock(value)), value, defaultLocation)

Parse(layout, value) == parse(layout, value, UTC)

\* ParseInLocation that reads a text without offset as UTC, as Parse does
ParseInLocation_asUTC(layout, value, loc) == parse(layout, value, UTC)

ParseInLocation(layout, value, loc) == parse(layout, value, loc)

(***************************************************************************)
(* The package: src/time.go and src/time_moscow.go.  A function that can   *)
(* fail gives its outcome [t, err]: t is the value the receiver (or the    *)
(* caller of a constructor) holds afterwards.                              *)
(***************************************************************************)
\* setTime
setTime(t, date, location) ==
    IF location = nil THEN [t |-> t, err |-> errEmptyLocation]
    ELSE [t |-> In(date, location), err |-> nilError]

\* the second attempt of setTimeString: a text the first layout leaves
\* "extra text" of is parsed again with the layout that has an offset
secondParse(first, data) ==
    IF first.err # nilError /\ Contains(first.err.text, extraText)
    THEN Parse(layoutZoned, data)
    ELSE first

\* the end of setTimeString storing what the parse gave before it looks at
\* the error
setParsed_storesOnError(t, res, location) ==
    [t |-> In(res.time, location), err |-> res.err]

\* the end of setTimeString: the error, or the value read, in location
setParsed(t, res, location) ==
    IF res.err # nilError THEN [t |-> t, err |-> res.err]
    ELSE [t |-> In(res.time, location), err |-> nilError]

\* the end of setTimeString without the final In(location)
setParsed_keepsParsedZone(t, res, location) ==
    IF res.err # nilError THEN [t |-> t, err |-> res.err]
    ELSE [t |-> res.time, err |-> nilError]

\* setTimeString without the case of the empty string
setTimeString_noEmptyCase(t, data, location) ==
    IF location = nil THEN [t |-> t, err |-> errEmptyLocation]
    ELSE setParsed(t, secondParse(ParseInLocation(layoutNaive, data, location), data),
                   location)

\* setTimeString without the final In(location): the value keeps the
\* location the parse gave it
setTimeString_keepsParsedZone(t, data, location) ==
    IF location = nil THEN [t |-> t, err |-> errEmptyLocation]
    ELSE IF data = <<>> THEN [t |-> In(zeroTime, location), err |-> nilError]
    ELSE setParsed_keepsParsedZone(
             t, secondParse(ParseInLocation(layoutNaive, data, location), data), location)

\* setTimeString
setTimeString(t, data, location) ==
    IF location = nil THEN [t |-> t, err |-> errEmptyLocation]
    ELSE IF data = <<>> THEN [t |-> In(zeroTime, location), err |-> nilError]
    ELSE setParsed(t, secondParse(ParseInLocation(layoutNaive, data, location), data),
                   location)

\* NewTime: the receiver of the outcome is the value the caller now holds
NewTime(t, date, location) ==
    IF location = nil THEN [t |-> t, err |-> errEmptyLocation]
    ELSE [t |-> In(date, location), err |-> nilError]

\* what the caller of a constructor holds: the new value r.t, or on error
\* what it held
constructed(t, r) == IF r.err # nilError THEN [t |-> t, err |-> r.err] ELSE r

\* NewTimeString: setTimeString on a fresh zero value
NewTimeString(t, date, location) ==
    constructed(t, setTimeString(zeroTime, date, location))

\* NewMoscowTime, NewMoscowTimeString
NewMoscowTime(t, date) == NewTime(t, date, MoscowLocation)

NewMoscowTimeString(t, str) == NewTimeString(t, str, MoscowLocation)

\* CustomScan with a case that takes a byte slice as text
CustomScan_acceptsBytes(t, src, location) ==
    CASE src.type = "time.Time" -> setTime(t, src.time, location)
      [] src.type = "string"    -> setTimeString(t, src.text, location)
      [] src.type = "[]uint8"   -> setTimeString(t, src.text, location)
      [] OTHER                  -> [t |-> t, err |-> errUnsupportedType(src.type)]

\* CustomScan: the type switch on src
CustomScan(t, src, location) ==
    CASE src.type = "time.Time" -> setTime(t, src.time, location)
      [] src.type = "string"    -> setTimeString(t, src.text, location)
      [] OTHER                  -> [t |-> t, err |-> errUnsupportedType(src.type)]

\* Time.Scan and MoscowTime.Scan
Scan(t, src) == CustomScan(t, src, UTC)

MoscowTime_Scan(t, src) == CustomScan(t, src, MoscowLocation)

\* CustomUnmarshalXML: d.DecodeElement reads the element's character data
CustomUnmarshalXML(t, element, location) ==
    IF ~element.ok THEN [t |-> t, err |-> errSyntax]
    ELSE setTimeString(t, element.text, location)

UnmarshalXML(t, element) == CustomUnmarshalXML(t, element, UTC)

MoscowTime_UnmarshalXML(t, element) == CustomUnmarshalXML(t, element, MoscowLocation)

\* CustomUnmarshalXMLAttr
CustomUnmarshalXMLAttr(t, attr, location) == setTimeString(t, attr.text, location)

UnmarshalXMLAttr(t, attr) == CustomUnmarshalXMLAttr(t, attr, UTC)

MoscowTime_UnmarshalXMLAttr(t, attr) == CustomUnmarshalXMLAttr(t, attr, MoscowLocation)

\* json.Unmarshal(data, &date) for a string date: a JSON string gives its
\* content, null leaves date empty, anything else is an error
jsonUnmarshal(data) ==
    IF /\ Len(data) >= 2
       /\ data[1] = "\"" /\ data[Len(data)] = "\""
       /\ \A i \in 2..(Len(data) - 1) : data[i] \notin {"\"", "\\"}
    THEN [err |-> nilError, date |-> SubSeq(data, 2, Len(data) - 1)]
    ELSE IF data = <<"n", "u", "l", "l">> THEN [err |-> nilError, date |-> <<>>]
    ELSE [err |-> errSyntax, date |-> <<>>]

\* json.Marshal of a string without characters to escape
jsonMarshal(str) == <<"\"">> \o str \o <<"\"">>

decoded(t, j, location) ==
    IF j.err # nilError THEN [t |-> t, err |-> j.err]
    ELSE setTimeString(t, j.date, location)

\* CustomUnmarshalJSON
CustomUnmarshalJSON(t, data, location) ==
    IF location = nil THEN [t |-> t, err |-> errEmptyLocation]
    ELSE decoded(t, jsonUnmarshal(data.text), location)

UnmarshalJSON(t, data) == CustomUnmarshalJSON(t, data, UTC)

MoscowTime_UnmarshalJSON(t, data) == CustomUnmarshalJSON(t, data, MoscowLocation)

\* Time.Format: the first layout given, or the default layout
Format(t, layout) ==
    IF Len(layout) = 0 THEN timeFormat(t, layoutDefault) ELSE timeFormat(t, layout[1])

\* CustomMarshalXML, CustomMarshalXMLAttr, CustomMarshalJSON: the error and
\* the text written as element content, attribute value or JSON bytes
CustomMarshalXML(t, location, format) ==
    IF location = nil THEN [err |-> errEmptyLocation, out |-> <<>>]
    ELSE [err |-> nilError, out |-> timeFormat(In(t, location), format)]

CustomMarshalXMLAttr(t, location, format) ==
    IF location = nil THEN [err |-> errEmptyLocation, out |-> <<>>]
    ELSE [err |-> nilError, out |-> timeFormat(In(t, location), format)]

CustomMarshalJSON(t, location, format) ==
    IF location = nil THEN [err |-> errEmptyLocation, out |-> <<>>]
    ELSE [err |-> nilError, out |-> jsonMarshal(timeFormat(In(t, location), format))]

\* the default entry points of Time and of MoscowTime
MarshalXML(t) == CustomMarshalXML(t, UTC, layoutZoned)

MarshalXMLAttr(t) == CustomMarshalXMLAttr(t, UTC, layoutZoned)

MarshalJSON(t) == CustomMarshalJSON(t, UTC, layoutZoned)

MoscowTime_MarshalXML(t) == CustomMarshalXML(t, UTC, layoutZoned)

MoscowTime_MarshalXMLAttr(t) == CustomMarshalXMLAttr(t, UTC, layoutZoned)

\* MoscowTime.MarshalJSON writing in Europe/Moscow, the zone it reads in
MoscowTime_MarshalJSON_inMoscow(t) == CustomMarshalJSON(t, MoscowLocation, layoutZoned)

MoscowTime_MarshalJSON(t) == CustomMarshalJSON(t, UTC, layoutZoned)

\* Time.Add
Add(t, duration) == timeAdd(t, duration)

\* Duration / (24 * time.Hour): d is [s, ns] of one sign with |ns| below a
\* second, so the quotient is that of the whole seconds
durationDays(d) == TruncDiv(d.s, 24 * 3600)

\* the first day of the month k months after that of wall clock w, at midnight
midnight(w, k, loc) == Date(w.year, w.month + k, 1, 0, 0, 0, 0, loc)

\* UntilEndMonthDays counting up to midnight of the first day
UntilEndMonthDays_toMidnight(t) ==
    durationDays(Sub(midnight(wallClock(t), 1, t.loc), t))

\* start.AddDate(0, 0, -(day-1)) for day == start.Day()
firstOfMonth(start, day) == AddDate(start, 0, 0, -(day - 1))

\* UntilEndMonthDays
UntilEndMonthDays(t) ==
    durationDays(Sub(AddDate(firstOfMonth(t, wallClock(t).day), 0, 1, 0), t))

\* UntilEndNextMonthDays adding one month, as UntilEndMonthDays does
UntilEndNextMonthDays_oneMonth(t) ==
    durationDays(Sub(AddDate(firstOfMonth(t, wallClock(t).day), 0, 1, 0), t))

\* UntilEndNextMonthDays
UntilEndNextMonthDays(t) ==
    durationDays(Sub(AddDate(firstOfMonth(t, wallClock(t).day), 0, 2, 0), t))

\* Equal: reflect.DeepEqual of the two values, field by field
Equal(t, y) == t = y

\* DeepEqual without the conversion to UTC
DeepEqual_keepsZone(t, y) == t = y

\* DeepEqual: both sides in UTC, then reflect.DeepEqual
DeepEqual(t, y) == In(t, UTC) = In(y, UTC)

\* EqualTime
EqualTime(t, y) == Equal(t, y)

(***************************************************************************)
(* Inputs                                                                  *)
(***************************************************************************)
txtNaive == <<"2", "0", "1", "8", "-", "0", "1", "-", "2", "5", "T", "1", "6", ":", "2", "4", ":", "2", "8">>

txtNaiveFrac == <<"2", "0", "1", "8", "-", "0", "1", "-", "2", "5", "T", "1", "6", ":", "2", "4", ":", "2", "8", ".", "7", "4">>

txtOffset == <<"2", "0", "1", "8", "-", "0", "1", "-", "2", "5", "T", "1", "6", ":", "2", "4", ":", "2", "8", "+", "0", "5", ":", "0", "0">>

txtOffsetFrac == <<"2", "0", "1", "8", "-", "0", "1", "-", "2", "5", "T", "1", "6", ":", "2", "4", ":", "2", "8", ".", "7", "4", "+", "0", "5", ":", "0", "0">>

txtZulu == <<"2", "0", "1", "8", "-", "0", "1", "-", "2", "5", "T", "1", "6", ":", "2", "4", ":", "2", "8", "Z">>

txtWest == <<"2", "0", "1", "6", "-", "0", "2", "-", "2", "9", "T", "2", "1", ":", "4", "0", ":", "0", "5", "-", "0", "4", ":", "3", "0">>

txtFeb == <<"2", "0", "1", "8", "-", "0", "2", "-", "0", "1", "T", "0", "0", ":", "0", "0", ":", "0", "0">>

txtMay == <<"2", "0", "1", "8", "-", "0", "5", "-", "0", "4", "T", "1", "2", ":", "1", "5", ":", "5", "5">>

txtDec == <<"2", "0", "1", "8", "-", "1", "2", "-", "2", "5", "T", "1", "2", ":", "1", "5", ":", "5", "5">>

txtLeap == <<"2", "0", "1", "6", "-", "0", "2", "-", "1", "0", "T", "0", "8", ":", "0", "0", ":", "0", "0">>

txtGap == <<"2", "0", "1", "1", "-", "0", "3", "-", "2", "7", "T", "0", "2", ":", "3", "0", ":", "0", "0">>

txtShift == <<"2", "0", "1", "1", "-", "0", "3", "-", "0", "5", "T", "1", "0", ":", "0", "0", ":", "0", "0">>

txtSummer == <<"1", "9", "8", "1", "-", "0", "3", "-", "1", "5", "T", "0", "0", ":", "3", "0", ":", "0", "0">>

txtFold == <<"2", "0", "1", "4", "-", "1", "0", "-", "2", "6", "T", "0", "1", ":", "3", "0", ":", "0", "0">>

txtApril == <<"1", "9", "8", "1", "-", "0", "4", "-", "1", "5", "T", "0", "0", ":", "3", "0", ":", "0", "0">>

txtDateOnly == <<"2", "0", "1", "8", "-", "0", "1", "-", "2", "5">>

txtDay30 == <<"2", "0", "1", "8", "-", "0", "2", "-", "3", "0", "T", "1", "0", ":", "0", "0", ":", "0", "0">>

txtNoColon == <<"2", "0", "1", "8", "-", "0", "1", "-", "2", "5", "T", "1", "6", ":", "2", "4", ":", "2", "8", "+", "0", "5", "0", "0">>

txtWords == <<"e", "x", "t", "r", "a", " ", "t", "e", "x", "t">>

WellFormed ==
    {txtNaive, txtNaiveFrac, txtOffset, txtOffsetFrac, txtZulu, txtWest, txtFeb, txtMay,
     txtDec, txtLeap, txtGap, txtFold, txtShift, txtSummer, txtApril}

Malformed == {txtDateOnly, txtDay30, txtNoColon, txtWords}

Texts == {<<>>} \cup WellFormed \cup Malformed

Halifax == FixedZone("", -(3 * 3600 + 1800))

Locations == {nil, UTC, MoscowLocation, Halifax}

\* native timestamps handed to the package: the zero value, a Moscow wall
\* clock, a value in a fixed zone with a fraction, and a reading of the
\* clock (in UTC, with a monotonic reading)
noTime == zeroTime

Natives ==
    {zeroTime,
     mkTime(utcInstant(2018, 2, 1, 11, 12, 18), 0, 0, MoscowLocation),
     mkTime(utcInstant(2018, 1, 25, 11, 24, 28), 740000000, 0, FixedZone("", 5 * 3600)),
     mkTime(utcInstant(2018, 5, 4, 12, 15, 55), 500000000, 7, UTC)}

Nows == {n \in Natives : n.mono # 0}

srcTime(v) == [type |-> "time.Time", text |-> <<>>, time |-> v, ok |-> TRUE]

srcString(s) == [type |-> "string", text |-> s, time |-> noTime, ok |-> TRUE]

srcOther(type, s) == [type |-> type, text |-> s, time |-> noTime, ok |-> TRUE]

srcNone == srcOther("none", <<>>)

ScanSources ==
    {srcTime(v) : v \in Natives} \cup {srcString(s) : s \in Texts}
        \cup {srcOther("int64", <<"4", "2">>), srcOther("[]uint8", txtNaive),
              srcOther("<nil>", <<>>)}

Elements ==
    {[type |-> "xml.StartElement", text |-> s, time |-> noTime, ok |-> TRUE] : s \in Texts}
        \cup {[type |-> "xml.StartElement", text |-> txtNaive, time |-> noTime, ok |-> FALSE]}

Attrs == {srcOther("xml.Attr", s) : s \in Texts}

JSONs ==
    {srcOther("json", jsonMarshal(s)) : s \in Texts}
        \cup {srcOther("json", <<"n", "u", "l", "l">>), srcOther("json", <<"4", "2">>)}

Durations == {[s |-> 36 * 3600, ns |-> 500000000], [s |-> -1, ns |-> -500000000]}

Layouts == {layoutNaive, layoutZoned}

Others == {In(n, z) : n \in Natives, z \in {UTC, MoscowLocation}}

\* how many times Add may be applied to one value
MaxAdds == 1

(***************************************************************************)
(* State: the value t a caller holds (a Time, or the Time embedded in a    *)
(* MoscowTime, as kind says), the call that has just returned (or noCall), *)
(* the zone given to the last successful construction, decoding or scan    *)
(* (nil before the first), and the number of Adds applied.                 *)
(***************************************************************************)
VARIABLES t, kind, call, zone, adds

vars == <<t, kind, call, zone, adds>>

noCall ==
    [op |-> "none", recv |-> zeroTime, location |-> nil, src |-> srcNone,
     err |-> nilError, out |-> <<>>]

\* var t Time, or var t MoscowTime: the zero value
Init ==
    /\ t = zeroTime
    /\ kind \in {"Time", "MoscowTime"}
    /\ call = noCall
    /\ zone = nil
    /\ adds = 0

\* a constructor, decoder or scan returns outcome r
Stores(op, newKind, location, src, r) ==
    /\ call' = [op |-> op, recv |-> t, location |-> location, src |-> src,
                err |-> r.err, out |-> <<>>]
    /\ t' = r.t
    /\ kind' = IF r.err = nilError THEN newKind ELSE kind
    /\ zone' = IF r.err = nilError THEN location ELSE zone
    /\ adds' = IF r.err = nilError THEN 0 ELSE adds

\* a method with a value receiver returns err and out
Reads(op, location, src, err, out) ==
    /\ call' = [op |-> op, recv |-> t, location |-> location, src |-> src,
                err |-> err, out |-> out]
    /\ UNCHANGED <<t, kind, zone, adds>>

\* a method with a value receiver returns m = [err, out]
Returns(op, location, src, m) == Reads(op, location, src, m.err, m.out)

CallNewTime ==
    /\ call.op = "none"
    /\ \E date \in Natives, location \in Locations :
           Stores("NewTime", "Time", location, srcTime(date), NewTime(t, date, location))

CallNewCurrentTime ==
    /\ call.op = "none"
    /\ \E now \in Nows :
           Stores("NewCurrentTime", "Time", UTC, srcTime(now), NewTime(t, now, UTC))

CallNewTimeString ==
    /\ call.op = "none"
    /\ \E date \in Texts, location \in Locations :
           Stores("NewTimeString", "Time", location, srcString(date), NewTimeString(t, date, location))

CallNewMoscowTime ==
    /\ call.op = "none"
    /\ \E date \in Natives :
           Stores("NewMoscowTime", "MoscowTime", MoscowLocation, srcTime(date), NewMoscowTime(t, date))

CallNewMoscowTimeString ==
    /\ call.op = "none"
    /\ \E str \in Texts :
           Stores("NewMoscowTimeString", "MoscowTime", MoscowLocation, srcString(str), NewMoscowTimeString(t, str))

CallScan ==
    /\ call.op = "none"
    /\ kind = "Time"
    /\ \E src \in ScanSources :
           Stores("Scan", kind, UTC, src, Scan(t, src))

CallMoscowTime_Scan ==
    /\ call.op = "none"
    /\ kind = "MoscowTime"
    /\ \E src \in ScanSources :
           Stores("MoscowTime.Scan", kind, MoscowLocation, src, MoscowTime_Scan(t, src))

CallCustomScan ==
    /\ call.op = "none"
    /\ \E src \in ScanSources, location \in Locations :
           Stores("CustomScan", kind, location, src, CustomScan(t, src, location))

CallUnmarshalXML ==
    /\ call.op = "none"
    /\ kind = "Time"
    /\ \E element \in Elements :
           Stores("UnmarshalXML", kind, UTC, element, UnmarshalXML(t, element))

CallMoscowTime_UnmarshalXML ==
    /\ call.op = "none"
    /\ kind = "MoscowTime"
    /\ \E element \in Elements :
           Stores("MoscowTime.UnmarshalXML", kind, MoscowLocation, element, MoscowTime_UnmarshalXML(t, element))

CallCustomUnmarshalXML ==
    /\ call.op = "none"
    /\ \E element \in Elements, location \in Locations :
           Stores("CustomUnmarshalXML", kind, location, element, CustomUnmarshalXML(t, element, location))

CallUnmarshalXMLAttr ==
    /\ call.op = "none"
    /\ kind = "Time"
    /\ \E attr \in Attrs :
           Stores("UnmarshalXMLAttr", kind, UTC, attr, UnmarshalXMLAttr(t, attr))

CallMoscowTime_UnmarshalXMLAttr ==
    /\ call.op = "none"
    /\ kind = "MoscowTime"
    /\ \E attr \in Attrs :
           Stores("MoscowTime.UnmarshalXMLAttr", kind, MoscowLocation, attr, MoscowTime_UnmarshalXMLAttr(t, attr))

CallCustomUnmarshalXMLAttr ==
    /\ call.op = "none"
    /\ \E attr \in Attrs, location \in Locations :
           Stores("CustomUnmarshalXMLAttr", kind, location, attr, CustomUnmarshalXMLAttr(t, attr, location))

CallUnmarshalJSON ==
    /\ call.op = "none"
    /\ kind = "Time"
    /\ \E data \in JSONs :
           Stores("UnmarshalJSON", kind, UTC, data, UnmarshalJSON(t, data))

CallMoscowTime_UnmarshalJSON ==
    /\ call.op = "none"
    /\ kind = "MoscowTime"
    /\ \E data \in JSONs :
           Stores("MoscowTime.UnmarshalJSON", kind, MoscowLocation, data, MoscowTime_UnmarshalJSON(t, data))

CallCustomUnmarshalJSON ==
    /\ call.op = "none"
    /\ \E data \in JSONs, location \in Locations :
           Stores("CustomUnmarshalJSON", kind, location, data, CustomUnmarshalJSON(t, data, location))

\* Add returns the translated value, a Time
CallAdd ==
    /\ call.op = "none"
    /\ adds < MaxAdds
    /\ \E duration \in Durations :
           /\ call' = [op |-> "Add", recv |-> t, location |-> nil, src |-> srcNone,
                       err |-> nilError, out |-> duration]
           /\ t' = Add(t, duration)
    /\ kind' = "Time"
    /\ adds' = adds + 1
    /\ UNCHANGED zone

CallFormat ==
    /\ call.op = "none"
    /\ \E layout \in {<<>>} \cup {<<l>> : l \in Layouts} :
           Reads("Format", nil, srcOther("layout", layout), nilError, Format(t, layout))

CallMarshalXML ==
    /\ call.op = "none"
    /\ kind = "Time"
    /\ Returns("MarshalXML", UTC, srcNone, MarshalXML(t))

CallMoscowTime_MarshalXML ==
    /\ call.op = "none"
    /\ kind = "MoscowTime"
    /\ Returns("MoscowTime.MarshalXML", UTC, srcNone, MoscowTime_MarshalXML(t))

CallCustomMarshalXML ==
    /\ call.op = "none"
    /\ \E location \in Locations, format \in Layouts :
           Returns("CustomMarshalXML", location, srcOther("layout", <<format>>), CustomMarshalXML(t, location, format))

CallMarshalXMLAttr ==
    /\ call.op = "none"
    /\ kind = "Time"
    /\ Returns("MarshalXMLAttr", UTC, srcNone, MarshalXMLAttr(t))

CallMoscowTime_MarshalXMLAttr ==
    /\ call.op = "none"
    /\ kind = "MoscowTime"
    /\ Returns("MoscowTime.MarshalXMLAttr", UTC, srcNone, MoscowTime_MarshalXMLAttr(t))

CallCustomMarshalXMLAttr ==
    /\ call.op = "none"
    /\ \E location \in Locations, format \in Layouts :
           Returns("CustomMarshalXMLAttr", location, srcOther("layout", <<format>>), CustomMarshalXMLAttr(t, location, format))

CallMarshalJSON ==
    /\ call.op = "none"
    /\ kind = "Time"
    /\ Returns("MarshalJSON", UTC, srcNone, MarshalJSON(t))

CallMoscowTime_MarshalJSON ==
    /\ call.op = "none"
    /\ kind = "MoscowTime"
    /\ Returns("MoscowTime.MarshalJSON", UTC, srcNone, MoscowTime_MarshalJSON(t))

CallCustomMarshalJSON ==
    /\ call.op = "none"
    /\ \E location \in Locations, format \in Layouts :
           Returns("CustomMarshalJSON", location, srcOther("layout", <<format>>), CustomMarshalJSON(t, location, format))

CallUntilEndMonthDays ==
    /\ call.op = "none"
    /\ Reads("UntilEndMonthDays", nil, srcNone, nilError, UntilEndMonthDays(t))

CallUntilEndNextMonthDays ==
    /\ call.op = "none"
    /\ Reads("UntilEndNextMonthDays", nil, srcNone, nilError, UntilEndNextMonthDays(t))

CallEqual ==
    /\ call.op = "none"
    /\ \E y \in Others : Reads("Equal", nil, srcTime(y), nilError, Equal(t, y))

CallDeepEqual ==
    /\ call.op = "none"
    /\ \E y \in Others : Reads("DeepEqual", nil, srcTime(y), nilError, DeepEqual(t, y))

CallEqualTime ==
    /\ call.op = "none"
    /\ \E y \in Natives : Reads("EqualTime", nil, srcTime(y), nilError, EqualTime(t, y))

\* the caller has looked at the result
Return ==
    /\ call.op # "none"
    /\ call' = noCall
    /\ UNCHANGED <<t, kind, zone, adds>>

Next ==
    \/ CallNewTime
    \/ CallNewCurrentTime
    \/ CallNewTimeString
    \/ CallNewMoscowTime
    \/ CallNewMoscowTimeString
    \/ CallScan
    \/ CallMoscowTime_Scan
    \/ CallCustomScan
    \/ CallUnmarshalXML
    \/ CallMoscowTime_UnmarshalXML
    \/ CallCustomUnmarshalXML
    \/ CallUnmarshalXMLAttr
    \/ CallMoscowTime_UnmarshalXMLAttr
    \/ CallCustomUnmarshalXMLAttr
    \/ CallUnmarshalJSON
    \/ CallMoscowTime_UnmarshalJSON
    \/ CallCustomUnmarshalJSON
    \/ CallAdd
    \/ CallFormat
    \/ CallMarshalXML
    \/ CallMarshalXMLAttr
    \/ CallMarshalJSON
    \/ CallMoscowTime_MarshalXML
    \/ CallMoscowTime_MarshalXMLAttr
    \/ CallMoscowTime_MarshalJSON
    \/ CallCustomMarshalXML
    \/ CallCustomMarshalXMLAttr
    \/ CallCustomMarshalJSON
    \/ CallUntilEndMonthDays
    \/ CallUntilEndNextMonthDays
    \/ CallEqual
    \/ CallDeepEqual
    \/ CallEqualTime
    \/ Return

Spec == Init /\ [][Next]_vars

(***************************************************************************)
(* Properties                                                              *)
(***************************************************************************)
UTCOps == {"NewCurrentTime", "Scan", "UnmarshalXML", "UnmarshalXMLAttr", "UnmarshalJSON"}

MoscowOps ==
    {"NewMoscowTime", "NewMoscowTimeString", "MoscowTime.Scan", "MoscowTime.UnmarshalXML",
     "MoscowTime.UnmarshalXMLAttr", "MoscowTime.UnmarshalJSON"}

CustomOps ==
    {"NewTime", "NewTimeString", "CustomScan", "CustomUnmarshalXML",
     "CustomUnmarshalXMLAttr", "CustomUnmarshalJSON"}

StoreOps == UTCOps \cup MoscowOps \cup CustomOps

\* the zone an operation is to store its value in
targetZone(c) ==
    IF c.op \in UTCOps THEN UTC
    ELSE IF c.op \in MoscowOps THEN MoscowLocation
    ELSE c.location

stored(c) == c.op \in StoreOps /\ c.err = nilError

ZoneOps ==
    {"NewTime", "NewTimeString", "CustomScan", "CustomUnmarshalXML",
     "CustomUnmarshalXMLAttr", "CustomUnmarshalJSON", "CustomMarshalXML",
     "CustomMarshalXMLAttr", "CustomMarshalJSON"}

\* C2: every operation that takes a zone fails with the InvalidZone error
\* when the zone is nil, whatever its other arguments are.
C2_NilZoneIsInvalidZone ==
    (call.op \in ZoneOps /\ call.location = nil) => call.err.kind = "InvalidZone"

\* what each well-formed text says, written out: its wall clock (as the
\* instant that shows it in UTC), its nanoseconds, and its offset if any
said(year, month, day, hour, min, sec, nsec, suffix, offset) ==
    [wall |-> utcInstant(year, month, day, hour, min, sec), nsec |-> nsec,
     suffix |-> suffix, offset |-> offset]

textClock(s) ==
    CASE s = txtNaive -> said(2018, 1, 25, 16, 24, 28, 0, FALSE, 0)
      [] s = txtNaiveFrac -> said(2018, 1, 25, 16, 24, 28, 740000000, FALSE, 0)
      [] s = txtOffset -> said(2018, 1, 25, 16, 24, 28, 0, TRUE, 5 * 3600)
      [] s = txtOffsetFrac -> said(2018, 1, 25, 16, 24, 28, 740000000, TRUE, 5 * 3600)
      [] s = txtZulu -> said(2018, 1, 25, 16, 24, 28, 0, TRUE, 0)
      [] s = txtWest -> said(2016, 2, 29, 21, 40, 5, 0, TRUE, -(4 * 3600 + 1800))
      [] s = txtFeb -> said(2018, 2, 1, 0, 0, 0, 0, FALSE, 0)
      [] s = txtMay -> said(2018, 5, 4, 12, 15, 55, 0, FALSE, 0)
      [] s = txtDec -> said(2018, 12, 25, 12, 15, 55, 0, FALSE, 0)
      [] s = txtLeap -> said(2016, 2, 10, 8, 0, 0, 0, FALSE, 0)
      [] s = txtGap -> said(2011, 3, 27, 2, 30, 0, 0, FALSE, 0)
      [] s = txtFold -> said(2014, 10, 26, 1, 30, 0, 0, FALSE, 0)
      [] s = txtShift -> said(2011, 3, 5, 10, 0, 0, 0, FALSE, 0)
      [] s = txtSummer -> said(1981, 3, 15, 0, 30, 0, 0, FALSE, 0)
      [] s = txtApril -> said(1981, 4, 15, 0, 30, 0, 0, FALSE, 0)

\* call c handed text s to the parser
parses(c, s) ==
    /\ c.op \in StoreOps
    /\ c.src.ok
    /\ \/ c.src.type \in {"string", "xml.StartElement", "xml.Attr"} /\ c.src.text = s
       \/ c.src.type = "json" /\ c.src.text = <<"\"">> \o s \o <<"\"">>

\* some instant shows the wall clock in location z
wallExists(z, wall) ==
    \E o \in zoneOffsets(z) : lookup(z, norm(wall.days, wall.secs - o)).offset = o

sameInstant(a, b) == a.days = b.days /\ a.secs = b.secs /\ a.nsec = b.nsec

\* C3: parsing a well-formed text under a zone z keeps the instant the text
\* denotes: its wall clock at its own offset when it carries one, its wall
\* clock at an offset of z otherwise (the offset z has at that instant,
\* wherever z shows that wall clock at all); the value is stored in z.
C3_ParseKeepsInstant ==
    /\ \A s \in WellFormed :
           (parses(call, s) /\ targetZone(call) # nil) =>
               LET m == textClock(s)
                   z == targetZone(call)
                   o == (m.wall.days - t.days) * secondsPerDay + (m.wall.secs - t.secs)
               IN  /\ call.err = nilError
                   /\ t.loc = z
                   /\ t.nsec = m.nsec
                   /\ m.suffix => o = m.offset
                   /\ ~m.suffix => o \in zoneOffsets(z)
                   /\ (~m.suffix /\ wallExists(z, m.wall)) => o = offsetOf(t)
    /\ (parses(call, txtOffset) /\ targetZone(call) = UTC) =>
           Format(t, <<layoutZoned>>) = <<"2", "0", "1", "8", "-", "0", "1", "-", "2", "5", "T", "1", "1", ":", "2", "4", ":", "2", "8", "Z">>
    /\ (parses(call, txtOffset) /\ targetZone(call) = MoscowLocation) =>
           Format(t, <<layoutZoned>>) = <<"2", "0", "1", "8", "-", "0", "1", "-", "2", "5", "T", "1", "4", ":", "2", "4", ":", "2", "8", "+", "0", "3", ":", "0", "0">>

\* a text with fraction and offset parsed under Europe/Moscow
C3_Witness ==
    /\ parses(call, txtOffsetFrac)
    /\ targetZone(call) = MoscowLocation
    /\ call.err = nilError
    /\ t.nsec = 740000000
    /\ Format(t, <<layoutNaive>>) = <<"2", "0", "1", "8", "-", "0", "1", "-", "2", "5", "T", "1", "4", ":", "2", "4", ":", "2", "8">>

\* a text without its fractional seconds
withoutFraction(s) ==
    IF \E i \in 1..Len(s) : s[i] \in {".", ","}
    THEN SubSeq(s, 1, (CHOOSE i \in 1..Len(s) :
                           s[i] \in {".", ","} /\ \A j \in 1..(i - 1) : s[j] \notin {".", ","}) - 1)
    ELSE s

\* C4 as stated: for every valid text s without offset and every zone z,
\* NewTimeString(s, z) succeeds and formats with "2006-01-02T15:04:05" as s
\* without its fractional seconds.
C4_NaiveRoundTrip ==
    \A s \in WellFormed :
        (/\ ~textClock(s).suffix
         /\ call.op = "NewTimeString" /\ call.src.text = s
         /\ call.location # nil) =>
            /\ call.err = nilError
            /\ Format(t, <<layoutNaive>>) = withoutFraction(s)

\* C4 amended: the same for every s whose wall clock z shows at some instant
\* (one that no transition of z skips).
C4_NaiveRoundTripWhereShown ==
    \A s \in WellFormed :
        (/\ ~textClock(s).suffix
         /\ call.op = "NewTimeString" /\ call.src.text = s
         /\ call.location # nil) =>
            /\ call.err = nilError
            /\ wallExists(call.location, textClock(s).wall) =>
                   Format(t, <<layoutNaive>>) = withoutFraction(s)

\* a text with a fraction, and a wall clock Europe/Moscow shows twice
C4_Witness ==
    /\ call.op = "NewTimeString"
    /\ call.location = MoscowLocation
    /\ call.err = nilError
    /\ \/ call.src.text = txtNaiveFrac /\ Format(t, <<layoutNaive>>) = txtNaive
       \/ call.src.text = txtFold /\ Format(t, <<layoutNaive>>) = txtFold

\* C5: parsing the empty string under a zone gives no error and the zero
\* instant in that zone, whatever the receiver held.
C5_EmptyStringIsZero ==
    (parses(call, <<>>) /\ targetZone(call) # nil) =>
        /\ call.err = nilError
        /\ instant(t) = utcInstant(1, 1, 1, 0, 0, 0) /\ t.nsec = 0
        /\ t.loc = targetZone(call)

\* a MoscowTime holding another instant decodes the JSON string ""
C5_Witness ==
    /\ parses(call, <<>>)
    /\ call.op = "MoscowTime.UnmarshalJSON"
    /\ instant(call.recv) # instant(zeroTime)
    /\ call.err = nilError
    /\ Format(t, <<layoutNaive>>) = <<"0","0","0","1","-","0","1","-","0","1","T","0","2",":","3","0",":","1","7">>
    /\ t.loc = MoscowLocation

\* C6: DeepEqual holds exactly of two values of the same instant, Equal
\* exactly of two values of the same instant stored in the same zone; so
\* NewTime(n, z1) and NewTime(n, z2) are DeepEqual, and Equal only if z1 = z2.
C6_Equality ==
    /\ call.op = "DeepEqual" => (call.out <=> sameInstant(t, call.src.time))
    /\ call.op = "Equal" =>
           (call.out <=> (sameInstant(t, call.src.time) /\ t.loc = call.src.time.loc))
    /\ \A n \in Natives, z1 \in Locations \ {nil}, z2 \in Locations \ {nil} :
           LET a == NewTime(t, n, z1).t
               b == NewTime(t, n, z2).t
           IN  /\ DeepEqual(a, b)
               /\ Equal(a, b) => z1 = z2

\* the same instant in two zones: DeepEqual, and not Equal
C6_Witness ==
    /\ call.op = "DeepEqual"
    /\ call.out = TRUE
    /\ t.loc # call.src.time.loc
    /\ ~Equal(t, call.src.time)

ScanOps == {"Scan", "MoscowTime.Scan", "CustomScan"}

\* C7: a scan of a native timestamp stores its instant in the target zone,
\* a scan of a text stores what parsing the text under that zone gives, and
\* a scan of anything else fails with UnsupportedType.
C7_ScanDispatch ==
    call.op \in ScanOps =>
        /\ (call.src.type = "time.Time" /\ targetZone(call) # nil) =>
               /\ call.err = nilError
               /\ sameInstant(t, call.src.time)
               /\ t.loc = targetZone(call)
        /\ (call.src.type = "string" /\ targetZone(call) # nil) =>
               [t |-> t, err |-> call.err]
                   = setTimeString(call.recv, call.src.text, targetZone(call))
        /\ call.src.type \notin {"time.Time", "string"} =>
               /\ call.err.kind = "UnsupportedType"
               /\ t = call.recv

\* MoscowTime.Scan of a timestamp of another zone, and of a byte slice
C7_Witness ==
    /\ call.op = "MoscowTime.Scan"
    /\ \/ /\ call.src.type = "time.Time"
          /\ call.src.time.loc = FixedZone("", 5 * 3600)
          /\ t.loc = MoscowLocation
       \/ /\ call.src.type = "[]uint8"
          /\ call.err.kind = "UnsupportedType"

DefaultMarshalOps ==
    {"MarshalXML", "MarshalXMLAttr", "MarshalJSON", "MoscowTime.MarshalXML",
     "MoscowTime.MarshalXMLAttr", "MoscowTime.MarshalJSON"}

\* the timestamp text a default encoding wrote
written(c) ==
    IF c.op \in {"MarshalJSON", "MoscowTime.MarshalJSON"}
    THEN SubSeq(c.out, 2, Len(c.out) - 1)
    ELSE c.out

\* the three default encodings of a value agree on the text
sameOnAllChannels(v, text) ==
    /\ MarshalXML(v).out = text
    /\ MarshalXMLAttr(v).out = text
    /\ MarshalJSON(v).out = <<"\"">> \o text \o <<"\"">>
    /\ MoscowTime_MarshalXML(v).out = text
    /\ MoscowTime_MarshalXMLAttr(v).out = text
    /\ MoscowTime_MarshalJSON(v).out = <<"\"">> \o text \o <<"\"">>

UntilOps == {"UntilEndMonthDays", "UntilEndNextMonthDays"}

months(c) == IF c.op = "UntilEndMonthDays" THEN 1 ELSE 2

\* the year and month k months after month m of year y
monthAfter(y, m, k) == [year |-> y + (m + k - 1) \div 12, month |-> ((m + k - 1) % 12) + 1]

\* whole 24-hour periods from value v to value end
wholeDays(v, end) == TruncDiv(Sub(end, v).s, 24 * 3600)

\* C9 as stated: the result is the number of whole 24-hour periods from the
\* stored instant to midnight at the start of the first day of the
\* following month (of the month after that).
C9_WholeDaysToMidnight ==
    call.op \in UntilOps =>
        LET w == wallClock(t)
            b == monthAfter(w.year, w.month, months(call))
        IN  call.out = wholeDays(t, Date(b.year, b.month, 1, 0, 0, 0, 0, t.loc))

\* C9 amended: the result is the number of whole 24-hour periods from the
\* stored instant to the first day of the following month (of the month
\* after that) at the stored value's own time of day, for every stored
\* instant whose time of day the zone shows on the first day of its month.
C9_WholeDaysToSameTimeOfDay ==
    call.op \in UntilOps =>
        LET w == wallClock(t)
            b == monthAfter(w.year, w.month, months(call))
            first == wallClock(Date(w.year, w.month, 1, w.hour, w.min, w.sec, t.nsec, t.loc))
        IN  (first.day = 1 /\ first.hour = w.hour /\ first.min = w.min /\ first.sec = w.sec) =>
                call.out = wholeDays(t, Date(b.year, b.month, 1, w.hour, w.min, w.sec,
                                             t.nsec, t.loc))

\* 2018-05-04T12:15:55: 28 days to June 1 at 12:15:55, 27 to midnight
C9_Witness ==
    /\ call.op = "UntilEndMonthDays"
    /\ wallClock(t) = [year |-> 2018, month |-> 5, day |-> 4, hour |-> 12, min |-> 15, sec |-> 55]
    /\ call.out = 28
    /\ wholeDays(t, Date(2018, 6, 1, 0, 0, 0, 0, t.loc)) = 27

\* the zone of v keeps one offset from the first day of v's month to the
\* day the count of n days ends
steady(v, n) ==
    LET d  == wallClock(v).day
        lo == norm(v.days - d, v.secs)
        hi == norm(v.days + n, v.secs)
    IN  lookup(v.loc, lo).start = lookup(v.loc, hi).start

\* C10: in a zone whose offset does not change in that time, a value on
\* day d of a month of L days followed by a month of N days gives
\* L - d + 1 and L - d + 1 + N, whatever its time of day; the intermediate
\* boundary is day 1 of the month.
C10_MonthBoundaryCounts ==
    /\ call.op \in UntilOps =>
           LET w  == wallClock(t)
               nx == monthAfter(w.year, w.month, 1)
               L  == daysIn(w.month, w.year)
               N  == daysIn(nx.month, nx.year)
               expected == IF call.op = "UntilEndMonthDays" THEN L - w.day + 1
                           ELSE L - w.day + 1 + N
           IN  steady(t, expected) =>
                   /\ call.out = expected
                   /\ wallClock(AddDate(t, 0, 0, -(w.day - 1))).day = 1
    /\ \A x \in {<<2, 1, 0, 0, 0, 28, 59>>, <<5, 4, 12, 15, 55, 28, 58>>,
                 <<12, 25, 12, 15, 55, 7, 38>>} :
           (/\ call.op \in UntilOps
            /\ t.loc \in {UTC, Halifax}
            /\ wallClock(t) = [year |-> 2018, month |-> x[1], day |-> x[2],
                               hour |-> x[3], min |-> x[4], sec |-> x[5]]) =>
               call.out = IF call.op = "UntilEndMonthDays" THEN x[6] ELSE x[7]

\* leap-year February at 08:00, and December into the next year
C10_Witness ==
    \/ /\ call.op = "UntilEndNextMonthDays"
       /\ wallClock(t) = [year |-> 2016, month |-> 2, day |-> 10, hour |-> 8, min |-> 0, sec |-> 0]
       /\ call.out = 51
    \/ /\ call.op = "UntilEndNextMonthDays"
       /\ wallClock(t) = [year |-> 2018, month |-> 12, day |-> 25, hour |-> 12, min |-> 15, sec |-> 55]
       /\ call.out = 38

DecodeOps ==
    {"Scan", "MoscowTime.Scan", "CustomScan",
     "UnmarshalXML", "MoscowTime.UnmarshalXML", "CustomUnmarshalXML",
     "UnmarshalXMLAttr", "MoscowTime.UnmarshalXMLAttr", "CustomUnmarshalXMLAttr",
     "UnmarshalJSON", "MoscowTime.UnmarshalJSON", "CustomUnmarshalJSON"}

\* C11: a decode or scan that returns an error (nil zone, unsupported source
\* type, undecodable element or JSON, text that neither layout reads) hands
\* the error to the caller and leaves the receiver's instant and zone as
\* they were before the call.
C11_FailureKeepsReceiver ==
    (call.op \in DecodeOps /\ call.err # nilError) =>
        /\ t = call.recv
        /\ call.err.kind \in {"InvalidZone", "UnsupportedType", "SyntaxError", "ParseError"}
        /\ (zone # nil /\ adds = 0) => t.loc = zone

\* a MoscowTime holding 2018-02-01T14:12:18+03:00 fails to decode a text
\* whose offset has no colon: both layouts fail, the value stays
C11_Witness ==
    /\ call.op = "MoscowTime.UnmarshalJSON"
    /\ call.src.text = <<"\"">> \o txtNoColon \o <<"\"">>
    /\ call.err.kind = "ParseError"
    /\ ~Contains(call.err.text, extraText)
    /\ call.recv # zeroTime
    /\ t = call.recv
    /\ t.loc = MoscowLocation

====
